---- MODULE Spec2Model ----
(***************************************************************************)
(* LawVista backend: the streaming chat handler (updateChat), the RAG      *)
(* pipeline it drives (streamLegalAssistantResponse), the Groq credential  *)
(* rotator (getNextGroqApiKey / markGroqKeyFailed) and the provider        *)
(* gateway (invokeLLMWithFallback).                                        *)
(*                                                                         *)
(* Node runs one JavaScript job at a time: the code between two awaits is  *)
(* one atomic step.  Every action below is the continuation that runs when *)
(* the awaited operation named by pc settles, up to the next await.        *)
(***************************************************************************)
EXTENDS Integers, Sequences, FiniteSets, TLC

\* ---------------------------------------------------------------- bounds
\* concurrent updateChat requests
MaxReq == 2
\* tokens a provider stream yields at most
MaxChunks == 2
\* concurrent invokeLLMWithFallback invocations
MaxInv == 2
\* pending setTimeout callbacks of markGroqKeyFailed
MaxTimers == 3
\* ticks in the 60 s delay of a timer (a tick is 30 s)
Window == 2

\* ------------------------------------------------------ program constants
\* user.uses >= 10 is denied
MaxUses == 10
\* a key with failures < 3 is selectable
FailLimit == 3
\* GROQ_API_KEY, GROQ_API_KEY_2, GROQ_API_KEY_3
MaxKeys == 3
\* score >= 0.6, scores in hundredths
RelevanceBar == 60
\* validDocs.slice(0, 2) are enriched with the PDF text
TopDocs == 2
\* summarizeLegalDocument keeps score < 0.35 || score >= 0.5
SumLow == 35
SumHigh == 50

Users == {"u1", "u2"}
ChatIds == {"c1"}
\* the k-th chunk of a provider stream carries token k
Token(k) == ToString(k)
Requests == 1..MaxReq
Invocations == 1..MaxInv

\* req.body.userMessage as its characters: absent or empty, "Hey!", " ok.", "law?"
Messages == { <<>>, <<"H", "e", "y", "!">>, <<" ", "o", "k", ".">>, <<"l", "a", "w", "?">> }

VARIABLES
    nKeys,                \* GROQ_API_KEYS.length
    openaiKey,            \* OPENAI_API_KEY is set
    currentGroqKeyIndex,
    keyFailureCounts,     \* key index -> failures (an absent Map entry is 0)
    timers,               \* pending setTimeout callbacks, in firing order
    vectorStoreInstance,  \* the cached store is initialised
    chats,                \* the Chats collection, in insertion order
    uses,                 \* User.uses per user
    admitted,             \* requests of a user ever admitted to streaming
    pc,                   \* the await each request is suspended at
    req,                  \* req.user._id, req.params.chatId, req.body.userMessage
    loc,                  \* locals of updateChat / streamLegalAssistantResponse
    res,                  \* the response object
    inv,                  \* invokeLLMWithFallback invocations
    due,                  \* ticks left until each pending timer is due (timed runs)
    sum                   \* the summarizeLegalDocument call in progress

rotator == <<currentGroqKeyIndex, keyFailureCounts, timers>>
config == <<nKeys, openaiKey>>
store == <<chats, uses, admitted>>
chatVars == <<pc, req, loc, res>>
clock == <<due>>
vars == <<nKeys, openaiKey, currentGroqKeyIndex, keyFailureCounts, timers,
          vectorStoreInstance, chats, uses, admitted, pc, req, loc, res, inv,
          due, sum>>

\* ------------------------------------------------------ credential rotator
KeyIds(n) == 0..(n - 1)

NoFailures(n) == [k \in KeyIds(n) |-> 0]

\* the test of the rotation loop: failures < 3
HealthyOverLimit(failures) == failures <= FailLimit
Healthy(failures) == failures < FailLimit

\* the offset i of the first healthy key from the pointer, n when there is none
RECURSIVE ScanKeys(_, _, _, _)
ScanKeys(n, idx, counts, i) ==
    IF i >= n THEN n
    ELSE IF Healthy(counts[(idx + i) % n]) THEN i
    ELSE ScanKeys(n, idx, counts, i + 1)

\* the all-keys-failed branch: clear(), pointer 0, the first key
ExhaustedReset(n, idx, counts) ==
    [key |-> 0, index |-> 0, counts |-> NoFailures(n)]

\* a selection that leaves the pointer on the key it returns
GetNextNoAdvance(n, idx, counts) ==
    LET i == ScanKeys(n, idx, counts, 0)
        index == (idx + i) % n
    IN  IF i < n
        THEN [key |-> index, index |-> index, counts |-> counts]
        ELSE ExhaustedReset(n, idx, counts)

\* getNextGroqApiKey: the key returned, the pointer and the counts afterwards
GetNextGroqApiKey(n, idx, counts) ==
    LET i == ScanKeys(n, idx, counts, 0)
        index == (idx + i) % n
    IN  IF i < n
        THEN [key |-> index, index |-> (index + 1) % n, counts |-> counts]
        ELSE ExhaustedReset(n, idx, counts)

\* markGroqKeyFailed: the count of the key goes up by one ...
MarkCountsStale(counts, k) == [counts EXCEPT ![k] = 1]
MarkCounts(counts, k) == [counts EXCEPT ![k] = @ + 1]
\* ... and a timer that deletes the entry is scheduled
MarkTimers(tm, k) == Append(tm, k)

\* the callback of the timer: keyFailureCounts.delete(apiKey)
DeleteCountNever(counts, k) == counts
DeleteCount(counts, k) == [counts EXCEPT ![k] = 0]

\* ------------------------------------------------------------- retrieval
\* candidates of similaritySearchWithScore: title, url, score in hundredths
DocA == [case_title |-> "A", source_url |-> "urlA", score |-> 82]
DocA2 == [case_title |-> "A", source_url |-> "urlA2", score |-> 70]
DocB == [case_title |-> "B", source_url |-> "urlB", score |-> 20]
DocC == [case_title |-> "C", source_url |-> "urlC", score |-> 60]
DocD == [case_title |-> "D", source_url |-> "urlD", score |-> 59]
SearchResults == { <<>>, <<DocB>>, <<DocA, DocA2, DocB>>, <<DocD, DocC>> }

\* the filter of validDocs: score >= 0.6
RelevantAny(d) == TRUE
Relevant(d) == d.score >= RelevanceBar

RECURSIVE ValidDocs(_)
ValidDocs(results) ==
    IF results = <<>> THEN <<>>
    ELSE IF Relevant(Head(results)) THEN <<Head(results)>> \o ValidDocs(Tail(results))
    ELSE ValidDocs(Tail(results))

\* [...new Map(items.map(item => [item.case_title, item])).values()]: a Map
\* keeps the position of the first insertion of a key and the value of the last
LastWithTitle(items, t) ==
    LET idx == { i \in 1..Len(items) : items[i].case_title = t }
    IN  items[CHOOSE i \in idx : \A j \in idx : j <= i]
RECURSIVE DedupByTitle(_, _, _)
DedupByTitle(items, i, seen) ==
    IF i > Len(items) THEN <<>>
    ELSE IF items[i].case_title \in seen THEN DedupByTitle(items, i + 1, seen)
    ELSE <<LastWithTitle(items, items[i].case_title)>>
         \o DedupByTitle(items, i + 1, seen \cup {items[i].case_title})
UniqueSources(validDocs) == DedupByTitle(validDocs, 1, {})

\* how a fetch ends: text extracted, request rejected, timed out, no usable text
FetchOutcomes == {"text", "failed", "timeout", "empty"}

\* fetchPdfText: the extracted text, null in every other case (its catch
\* clause returns null, it never rejects)
FetchPdfText(outcome) == IF outcome = "text" THEN "pdf" ELSE "null"

\* if (!fullText) fullText = doc.page_content || m.text_snippet || ""
FullTextNoFallback(fetchedText) == fetchedText
FullText(fetchedText) == IF fetchedText = "null" THEN "snippet" ELSE fetchedText

\* validDocs.slice(0, 2)
TopTwo(validDocs) ==
    SubSeq(validDocs, 1, IF Len(validDocs) < TopDocs THEN Len(validDocs) ELSE TopDocs)

\* contextText: a block per valid document, the enriched ones first, the
\* remaining ones with their snippet
ContextText(validDocs, fetched) ==
    [k \in 1..Len(validDocs) |->
        [case_title |-> validDocs[k].case_title,
         fullText |-> IF k <= Len(fetched) THEN FullText(fetched[k]) ELSE "snippet"]]

\* contextText = "NO SPECIFIC CASE FILES FOUND."
NoEvidence == <<[case_title |-> "", fullText |-> "NO SPECIFIC CASE FILES FOUND."]>>

\* ------------------------------------------------------------ the channel
SourcesEvent(list) == [event |-> "sources", data |-> list]
ChunkEvent(token) == [event |-> "chunk", data |-> <<token>>]
EndEvent == [event |-> "end", data |-> <<>>]
ErrorEvent == [event |-> "error", data |-> <<>>]

GreetingText == "Hello! I am your legal assistant."

\* the three writes of the greeting branch
GreetingEventsNoEnd == << SourcesEvent(<<>>), ChunkEvent(GreetingText) >>
GreetingEvents == << SourcesEvent(<<>>), ChunkEvent(GreetingText), EndEvent >>

\* the greetings array
Greetings ==
    { <<"h", "i">>,
      <<"h", "e", "l", "l", "o">>,
      <<"h", "e", "y">>,
      <<"g", "r", "e", "e", "t", "i", "n", "g", "s">>,
      <<"g", "o", "o", "d", " ", "m", "o", "r", "n", "i", "n", "g">>,
      <<"g", "o", "o", "d", " ", "e", "v", "e", "n", "i", "n", "g">>,
      <<"t", "h", "a", "n", "k", "s">>,
      <<"t", "h", "a", "n", "k", " ", "y", "o", "u">> }

\* toLowerCase() on the letters the messages use
Lower(c) == IF c = "H" THEN "h" ELSE c

\* trim(): leading and trailing blanks dropped
RECURSIVE TrimLeft(_)
TrimLeft(s) == IF s # <<>> /\ Head(s) = " " THEN TrimLeft(Tail(s)) ELSE s
RECURSIVE TrimRight(_)
TrimRight(s) ==
    IF s # <<>> /\ s[Len(s)] = " " THEN TrimRight(SubSeq(s, 1, Len(s) - 1)) ELSE s
Trim(s) == TrimRight(TrimLeft(s))

\* replace(/[?!.]/g, "")
RECURSIVE StripMarks(_)
StripMarks(s) ==
    IF s = <<>> THEN <<>>
    ELSE IF Head(s) \in {"?", "!", "."} THEN StripMarks(Tail(s))
    ELSE <<Head(s)>> \o StripMarks(Tail(s))

\* userInput.toLowerCase().trim().replace(/[?!.]/g, "")
CleanInput(msg) == StripMarks(Trim([i \in 1..Len(msg) |-> Lower(msg[i])]))

\* greetings.includes(cleanInput) || cleanInput.length < 3
IsGreetingListOnly(msg) == CleanInput(msg) \in Greetings
IsGreeting(msg) == CleanInput(msg) \in Greetings \/ Len(CleanInput(msg)) < 3

\* the body of a json answer of getChat or deleteChat: its message and, in
\* data, the conversation it carries
NoBody == [message |-> "", data |-> <<>>]

\* events are the res.write calls made; destroyed says that the client has
\* closed the connection; body is kept for the answers of getChat and deleteChat
NoRes == [statusCode |-> 0, contentType |-> "", headersSent |-> FALSE,
          events |-> <<>>, ended |-> FALSE, destroyed |-> FALSE, body |-> NoBody]

\* res.status(code).json(...)
Json(rs, code) == [rs EXCEPT !.statusCode = code, !.contentType = "application/json",
                             !.headersSent = TRUE, !.ended = TRUE]
\* res.setHeader('Content-Type', 'text/event-stream'); res.flushHeaders()
FlushHeaders(rs) == [rs EXCEPT !.statusCode = 200, !.contentType = "text/event-stream",
                               !.headersSent = TRUE]
Write(rs, ev) == [rs EXCEPT !.events = Append(@, ev)]
WriteAll(rs, evs) == [rs EXCEPT !.events = @ \o evs]
End(rs) == [rs EXCEPT !.ended = TRUE]

\* the catch block of updateChat
CatchAlwaysJson(rs) == Json(rs, 500)
CatchNoEnd(rs) ==
    IF ~rs.headersSent THEN Json(rs, 500)
    ELSE Write(rs, ErrorEvent)
Catch(rs) ==
    IF ~rs.headersSent THEN Json(rs, 500)
    ELSE End(Write(rs, ErrorEvent))

\* ---------------------------------------------------------- the stores
\* Chats.findOne({ chatId }): the position of the first match, 0 for null
RECURSIVE FindFrom(_, _, _)
FindFrom(docs, c, i) ==
    IF i > Len(docs) THEN 0
    ELSE IF docs[i].chatId = c THEN i
    ELSE FindFrom(docs, c, i + 1)
FindOneChat(docs, c) == FindFrom(docs, c, 1)

NewChat(c, u) == [chatId |-> c, user |-> u, chatHistory |-> <<>>]

\* chat.chatHistory.push(turn); chat.save(): mongoose sends the pushed element
\* as a $push on the stored document
PushTurnLost(docs, i, turn) == docs
PushTurn(docs, i, turn) == [docs EXCEPT ![i].chatHistory = Append(@, turn)]

\* the two turns of a request; by names the request that produced the turn
UserTurn(r, msg) == [kind |-> "user", text |-> msg, sources |-> <<>>, by |-> r]
AiTurn(r, answer, sources) == [kind |-> "ai", text |-> answer, sources |-> sources, by |-> r]

\* user.uses >= 10
OverQuotaOffByOne(n) == n > MaxUses
OverQuota(n) == n >= MaxUses

\* if (user.uses >= 10) return res.status(403).json(...); else flushHeaders()
QuotaGateFlushFirst(rs, n) ==
    IF OverQuota(n) THEN [FlushHeaders(rs) EXCEPT !.statusCode = 403, !.ended = TRUE]
    ELSE FlushHeaders(rs)
QuotaGate(rs, n) ==
    IF OverQuota(n) THEN Json(rs, 403)
    ELSE FlushHeaders(rs)

\* locals; threw is the await whose rejection was caught ("" for none),
\* sentAtThrow is res.headersSent at that moment, returned says that
\* streamLegalAssistantResponse returned { answer, sources }
\* searchCalls and streamCalls count the similaritySearchWithScore and
\* llm.stream calls the request has started, fetched holds what the
\* fetchPdfText calls returned, created says that the local chat came from
\* Chats.create
NoLoc == [uses |-> 0, results |-> <<>>, validDocs |-> <<>>, uniqueSources |-> <<>>, fullAnswer |-> <<>>,
          answer |-> <<>>, sources |-> <<>>, llmKey |-> 0,
          fetched |-> <<>>, contextText |-> <<>>, searchCalls |-> 0, streamCalls |-> 0,
          threw |-> "", sentAtThrow |-> FALSE, returned |-> FALSE, created |-> FALSE]
NoReq == [user |-> "", chatId |-> "", userMessage |-> <<>>]

\* the awaits of updateChat on the two stores
StoreAwaits == {"findOne", "create", "findById", "saveUser", "saveUserTurn", "saveAiTurn"}

\* ------------------------------------------------------------ updateChat
\* a request arrives; a missing userMessage is answered 400 at once
Receive(r) ==
    /\ pc[r] = "idle"
    /\ \E u \in Users, c \in ChatIds, m \in Messages :
         /\ req' = [req EXCEPT ![r] = [user |-> u, chatId |-> c, userMessage |-> m]]
         /\ IF m = <<>>
            THEN /\ res' = [res EXCEPT ![r] = Json(@, 400)]
                 /\ pc' = [pc EXCEPT ![r] = "done"]
            ELSE /\ res' = res
                 /\ pc' = [pc EXCEPT ![r] = "findOne"]
    /\ UNCHANGED <<config, clock, sum, rotator, vectorStoreInstance, store, loc, inv>>

\* Chats.findOne settles: null starts Chats.create, a chat of another user is 401
FindOne(r) ==
    /\ pc[r] = "findOne"
    /\ LET i == FindOneChat(chats, req[r].chatId)
       IN  IF i = 0
           THEN /\ pc' = [pc EXCEPT ![r] = "create"]
                /\ res' = res
           ELSE IF req[r].user # chats[i].user
           THEN /\ res' = [res EXCEPT ![r] = Json(@, 401)]
                /\ pc' = [pc EXCEPT ![r] = "done"]
           ELSE /\ pc' = [pc EXCEPT ![r] = "findById"]
                /\ res' = res
    /\ UNCHANGED <<config, clock, sum, rotator, vectorStoreInstance, store, req, loc, inv>>

\* Chats.create on a collection without the unique index on chatId
CreateNoUniqueIndex(r) ==
    /\ pc[r] = "create"
    /\ chats' = Append(chats, NewChat(req[r].chatId, req[r].user))
    /\ loc' = [loc EXCEPT ![r].created = TRUE]
    /\ pc' = [pc EXCEPT ![r] = "findById"]
    /\ UNCHANGED <<config, clock, sum, rotator, vectorStoreInstance, uses, admitted, req, res, inv>>

\* Chats.create settles: chatId is unique, a second document is a duplicate-key
\* error that lands in the catch block
Create(r) ==
    /\ pc[r] = "create"
    /\ IF FindOneChat(chats, req[r].chatId) # 0
       THEN /\ res' = [res EXCEPT ![r] = Catch(@)]
            /\ loc' = [loc EXCEPT ![r].threw = "create",
                                  ![r].sentAtThrow = res[r].headersSent]
            /\ pc' = [pc EXCEPT ![r] = "done"]
            /\ chats' = chats
       ELSE /\ chats' = Append(chats, NewChat(req[r].chatId, req[r].user))
            /\ loc' = [loc EXCEPT ![r].created = TRUE]
            /\ pc' = [pc EXCEPT ![r] = "findById"]
            /\ res' = res
    /\ UNCHANGED <<config, clock, sum, rotator, vectorStoreInstance, uses, admitted, req, inv>>

\* User.findById settles: the quota check, then the SSE headers and uses += 1
FindById(r) ==
    /\ pc[r] = "findById"
    /\ LET n == uses[req[r].user]
       IN  /\ res' = [res EXCEPT ![r] = QuotaGate(@, n)]
           /\ IF OverQuota(n)
              THEN /\ pc' = [pc EXCEPT ![r] = "done"]
                   /\ UNCHANGED <<loc, admitted>>
              ELSE /\ pc' = [pc EXCEPT ![r] = "saveUser"]
                   /\ loc' = [loc EXCEPT ![r].uses = n + 1]
                   /\ admitted' = [admitted EXCEPT ![req[r].user] = @ + 1]
    /\ UNCHANGED <<config, clock, sum, rotator, vectorStoreInstance, chats, uses, req, inv>>

\* user.save() settles: the stored count becomes the local one; the user turn
\* is pushed and chat.save() starts
SaveUser(r) ==
    /\ pc[r] = "saveUser"
    /\ uses' = [uses EXCEPT ![req[r].user] = loc[r].uses]
    /\ pc' = [pc EXCEPT ![r] = "saveUserTurn"]
    /\ UNCHANGED <<config, clock, sum, rotator, vectorStoreInstance, chats, admitted, req, loc, res, inv>>

\* chat.save() of the user turn settles; streamLegalAssistantResponse is
\* called and runs getResources (createGroqLLM selects a key) up to its await
SaveUserTurn(r) ==
    /\ pc[r] = "saveUserTurn"
    /\ LET i == FindOneChat(chats, req[r].chatId)
           sel == GetNextGroqApiKey(nKeys, currentGroqKeyIndex, keyFailureCounts)
       IN  /\ i # 0
           /\ chats' = PushTurn(chats, i, UserTurn(r, req[r].userMessage))
           /\ vectorStoreInstance' = TRUE
           /\ currentGroqKeyIndex' = sel.index
           /\ keyFailureCounts' = sel.counts
           /\ loc' = [loc EXCEPT ![r].llmKey = sel.key]
    /\ pc' = [pc EXCEPT ![r] = "gotResources"]
    /\ UNCHANGED <<config, clock, sum, timers, uses, admitted, req, res, inv>>

\* an awaited store operation rejects: the catch block of updateChat
StoreFails(r) ==
    /\ pc[r] \in StoreAwaits
    /\ res' = [res EXCEPT ![r] = Catch(@)]
    /\ loc' = [loc EXCEPT ![r].threw = pc[r], ![r].sentAtThrow = res[r].headersSent]
    /\ pc' = [pc EXCEPT ![r] = "done"]
    /\ UNCHANGED <<config, clock, sum, rotator, vectorStoreInstance, store, req, inv>>

\* ------------------------------------------- streamLegalAssistantResponse
\* the write of STEP D before generation
BeforeGeneration(rs, list) == Write(rs, SourcesEvent(list))

\* the writes after the for-await loop has consumed the provider stream
AfterGeneration(rs) == Write(rs, EndEvent)

\* the catch block of streamLegalAssistantResponse: an error event, then rethrow
StreamCatch(rs) == Write(rs, ErrorEvent)

\* await getResources() resumes: the greeting filter answers at once, anything
\* else starts similaritySearchWithScore
GotResources(r) ==
    /\ pc[r] = "gotResources"
    /\ IF IsGreeting(req[r].userMessage)
       THEN /\ res' = [res EXCEPT ![r] = WriteAll(@, GreetingEvents)]
            /\ loc' = [loc EXCEPT ![r].answer = <<"Greeting">>, ![r].sources = <<>>,
                                  ![r].returned = TRUE]
            /\ pc' = [pc EXCEPT ![r] = "streamReturned"]
       ELSE /\ pc' = [pc EXCEPT ![r] = "search"]
            /\ loc' = [loc EXCEPT ![r].searchCalls = @ + 1]
            /\ res' = res
    /\ UNCHANGED <<config, clock, sum, rotator, vectorStoreInstance, store, req, inv>>

\* the search settles with its candidates: with valid documents the PDF
\* fetches of the top two start, with none the sources event is written and
\* llm.stream is called
Search(r) ==
    /\ pc[r] = "search"
    /\ \E results \in SearchResults :
         LET validDocs == ValidDocs(results)
         IN  IF Len(validDocs) > 0
             THEN /\ loc' = [loc EXCEPT ![r].results = results,
                                        ![r].validDocs = validDocs]
                  /\ pc' = [pc EXCEPT ![r] = "enrich"]
                  /\ res' = res
             ELSE /\ loc' = [loc EXCEPT ![r].results = results,
                                        ![r].validDocs = validDocs,
                                        ![r].uniqueSources = <<>>,
                                        ![r].contextText = NoEvidence,
                                        ![r].streamCalls = @ + 1]
                  /\ res' = [res EXCEPT ![r] = BeforeGeneration(@, <<>>)]
                  /\ pc' = [pc EXCEPT ![r] = "streamOpen"]
    /\ UNCHANGED <<config, clock, sum, rotator, vectorStoreInstance, store, req, inv>>

\* Promise.all of the fetchPdfText calls of the top two settles, each call
\* with its own outcome; the context is built, the sources event is written and
\* llm.stream is called
Enrich(r) ==
    /\ pc[r] = "enrich"
    /\ \E outcomes \in [1..Len(TopTwo(loc[r].validDocs)) -> FetchOutcomes] :
         LET fetched == [k \in DOMAIN outcomes |-> FetchPdfText(outcomes[k])]
             uniqueSources == UniqueSources(loc[r].validDocs)
         IN  /\ loc' = [loc EXCEPT ![r].fetched = fetched,
                                   ![r].contextText = ContextText(loc[r].validDocs, fetched),
                                   ![r].uniqueSources = uniqueSources,
                                   ![r].streamCalls = @ + 1]
             /\ res' = [res EXCEPT ![r] = BeforeGeneration(@, uniqueSources)]
    /\ pc' = [pc EXCEPT ![r] = "streamOpen"]
    /\ UNCHANGED <<config, clock, sum, rotator, vectorStoreInstance, store, req, inv>>

\* await llm.stream(messages) resolves with the provider stream
StreamOpen(r) ==
    /\ pc[r] = "streamOpen"
    /\ loc' = [loc EXCEPT ![r].fullAnswer = <<>>]
    /\ pc' = [pc EXCEPT ![r] = "streaming"]
    /\ UNCHANGED <<config, clock, sum, rotator, vectorStoreInstance, store, req, res, inv>>

\* the stream yields a chunk: fullAnswer += token and a chunk event
Chunk(r) ==
    /\ pc[r] = "streaming"
    /\ Len(loc[r].fullAnswer) < MaxChunks
    /\ LET token == Token(Len(loc[r].fullAnswer) + 1)
       IN  /\ loc' = [loc EXCEPT ![r].fullAnswer = Append(@, token)]
           /\ res' = [res EXCEPT ![r] = Write(@, ChunkEvent(token))]
    /\ UNCHANGED <<config, clock, sum, rotator, vectorStoreInstance, store, pc, req, inv>>

\* the client closes the connection while the for-await loop is suspended; no
\* 'close' listener is registered and res.write on a destroyed response does
\* not throw, so the loop goes on
Disconnect(r) ==
    /\ pc[r] = "streaming"
    /\ ~res[r].destroyed
    /\ res' = [res EXCEPT ![r].destroyed = TRUE]
    /\ UNCHANGED <<config, clock, sum, rotator, vectorStoreInstance, store, pc, req, loc, inv>>

\* the stream is exhausted: the end event, return { answer, sources }
StreamEnd(r) ==
    /\ pc[r] = "streaming"
    /\ res' = [res EXCEPT ![r] = AfterGeneration(@)]
    /\ loc' = [loc EXCEPT ![r].answer = loc[r].fullAnswer,
                          ![r].sources = loc[r].uniqueSources,
                          ![r].returned = TRUE]
    /\ pc' = [pc EXCEPT ![r] = "streamReturned"]
    /\ UNCHANGED <<config, clock, sum, rotator, vectorStoreInstance, store, req, inv>>

\* the catch block also saving the text accumulated so far as the assistant turn
StreamFailsPersistsPartial(r) ==
    /\ pc[r] \in {"search", "streamOpen", "streaming"}
    /\ res' = [res EXCEPT ![r] = StreamCatch(@)]
    /\ loc' = [loc EXCEPT ![r].threw = pc[r], ![r].sentAtThrow = res[r].headersSent]
    /\ pc' = [pc EXCEPT ![r] = "streamThrew"]
    /\ LET i == FindOneChat(chats, req[r].chatId)
       IN  chats' = PushTurn(chats, i, AiTurn(r, loc[r].fullAnswer, loc[r].uniqueSources))
    /\ UNCHANGED <<config, clock, sum, rotator, vectorStoreInstance, uses, admitted, req, inv>>

\* the search, llm.stream or the stream itself rejects: the catch block of
\* streamLegalAssistantResponse writes an error event and rethrows
StreamFails(r) ==
    /\ pc[r] \in {"search", "streamOpen", "streaming"}
    /\ res' = [res EXCEPT ![r] = StreamCatch(@)]
    /\ loc' = [loc EXCEPT ![r].threw = pc[r], ![r].sentAtThrow = res[r].headersSent]
    /\ pc' = [pc EXCEPT ![r] = "streamThrew"]
    /\ UNCHANGED <<config, clock, sum, rotator, vectorStoreInstance, store, req, inv>>

\* a catch block of updateChat that saves the text accumulated so far
StreamThrewPersists(r) ==
    /\ pc[r] = "streamThrew"
    /\ res' = [res EXCEPT ![r] = Catch(@)]
    /\ pc' = [pc EXCEPT ![r] = "done"]
    /\ LET i == FindOneChat(chats, req[r].chatId)
       IN  chats' = PushTurn(chats, i, AiTurn(r, loc[r].fullAnswer, loc[r].uniqueSources))
    /\ UNCHANGED <<config, clock, sum, rotator, vectorStoreInstance, uses, admitted, req, loc, inv>>

\* the rejection reaches the await in updateChat: its catch block
StreamThrew(r) ==
    /\ pc[r] = "streamThrew"
    /\ res' = [res EXCEPT ![r] = Catch(@)]
    /\ pc' = [pc EXCEPT ![r] = "done"]
    /\ UNCHANGED <<config, clock, sum, rotator, vectorStoreInstance, store, req, loc, inv>>

\* the await in updateChat resumes with { answer, sources }: the assistant
\* turn is pushed and chat.save() starts
StreamReturned(r) ==
    /\ pc[r] = "streamReturned"
    /\ pc' = [pc EXCEPT ![r] = "saveAiTurn"]
    /\ UNCHANGED <<config, clock, sum, rotator, vectorStoreInstance, store, req, loc, res, inv>>

\* chat.save() of the assistant turn settles; res.end()
SaveAiTurn(r) ==
    /\ pc[r] = "saveAiTurn"
    /\ LET i == FindOneChat(chats, req[r].chatId)
       IN  /\ i # 0
           /\ chats' = PushTurn(chats, i, AiTurn(r, loc[r].answer, loc[r].sources))
    /\ res' = [res EXCEPT ![r] = End(@)]
    /\ pc' = [pc EXCEPT ![r] = "done"]
    /\ UNCHANGED <<config, clock, sum, rotator, vectorStoreInstance, uses, admitted, req, loc, inv>>

\* -------------------------------------------------- invokeLLMWithFallback
\* what a Groq call rejects with: whether error.message includes 'rate', and
\* error.status; NewError is new Error("All LLM providers failed")
NoError == [from |-> "", rate |-> FALSE, status |-> 0]
NewError == [from |-> "all", rate |-> FALSE, status |-> 0]
GroqErrors == { [from |-> "groq", rate |-> TRUE, status |-> 500],
                [from |-> "groq", rate |-> FALSE, status |-> 429],
                [from |-> "groq", rate |-> FALSE, status |-> 401] }

\* error.message?.includes('rate') || error.status === 429
IsRateLimitedAlways(e) == TRUE
IsRateLimited(e) == e.rate \/ e.status = 429

\* if (OPENAI_API_KEY && !preferOpenAI): the final fallback
FinalFallbackAlways(prefer, key) == key
FinalFallback(prefer, key) == key /\ ~prefer

\* throw lastError || new Error("All LLM providers failed")
Thrown(lastError) == IF lastError # NoError THEN lastError ELSE NewError

\* the locals of an invocation; openaiCalls and groqCalls count the provider
\* calls it has started, outcome is "" while it runs, then the backend whose
\* response it returned ("openai", "groq") or "threw", thrown the error thrown
IdleInv == [pc |-> "idle", preferOpenAI |-> FALSE, attempt |-> 0, apiKey |-> 0,
            lastError |-> NoError, openaiCalls |-> 0, groqCalls |-> 0,
            outcome |-> "", thrown |-> NoError]

\* after the loop: the final fallback (its OpenAI call starts), or the throw
AfterLoop(i, rec, counts, tm) ==
    /\ keyFailureCounts' = counts
    /\ timers' = tm
    /\ currentGroqKeyIndex' = currentGroqKeyIndex
    /\ IF FinalFallback(rec.preferOpenAI, openaiKey)
       THEN inv' = [inv EXCEPT ![i] = [rec EXCEPT !.pc = "openaiLast",
                                                  !.openaiCalls = @ + 1]]
       ELSE inv' = [inv EXCEPT ![i] = [rec EXCEPT !.pc = "done", !.outcome = "threw",
                                                  !.thrown = Thrown(rec.lastError)]]

\* the loop test for (attempt < GROQ_API_KEYS.length): createGroqLLM selects a
\* key and llm.invoke starts, or the loop is left
LoopHead(i, rec, attempt, counts, tm) ==
    IF attempt < nKeys
    THEN LET sel == GetNextGroqApiKey(nKeys, currentGroqKeyIndex, counts)
         IN  /\ currentGroqKeyIndex' = sel.index
             /\ keyFailureCounts' = sel.counts
             /\ timers' = tm
             /\ inv' = [inv EXCEPT ![i] =
                    [rec EXCEPT !.pc = "groq", !.attempt = attempt, !.apiKey = sel.key,
                                !.groqCalls = @ + 1]]
    ELSE AfterLoop(i, rec, counts, tm)

\* invokeLLMWithFallback(prompt, prefer) runs up to its first await: the
\* preferred OpenAI call starts, or the Groq loop is entered
InvBegin(i, prefer) ==
    LET rec == [inv[i] EXCEPT !.preferOpenAI = prefer]
    IN  IF prefer /\ openaiKey
        THEN /\ inv' = [inv EXCEPT ![i] = [rec EXCEPT !.pc = "openaiFirst",
                                                      !.openaiCalls = @ + 1]]
             /\ UNCHANGED rotator
        ELSE LoopHead(i, rec, 0, keyFailureCounts, timers)

\* invokeLLMWithFallback(prompt, preferOpenAI) is called
InvStart(i) ==
    /\ inv[i].pc = "idle"
    /\ \E prefer \in BOOLEAN : InvBegin(i, prefer)
    /\ UNCHANGED <<config, clock, sum, vectorStoreInstance, store, chatVars>>

\* the preferred OpenAI call resolves: return response
OpenAIFirstOk(i) ==
    /\ inv[i].pc = "openaiFirst"
    /\ inv' = [inv EXCEPT ![i].pc = "done", ![i].outcome = "openai"]
    /\ UNCHANGED <<config, clock, sum, rotator, vectorStoreInstance, store, chatVars>>

\* the preferred OpenAI call rejects: logged to the console, the Groq loop starts
OpenAIFirstFails(i) ==
    /\ inv[i].pc = "openaiFirst"
    /\ LoopHead(i, inv[i], 0, keyFailureCounts, timers)
    /\ UNCHANGED <<config, clock, sum, vectorStoreInstance, store, chatVars>>

\* llm.invoke on the selected key resolves: return response
GroqOk(i) ==
    /\ inv[i].pc = "groq"
    /\ inv' = [inv EXCEPT ![i].pc = "done", ![i].outcome = "groq"]
    /\ UNCHANGED <<config, clock, sum, rotator, vectorStoreInstance, store, chatVars>>

\* llm.invoke rejects: lastError = error, markGroqKeyFailed(apiKey), then
\* continue when rate limited, break otherwise
GroqFails(i) ==
    /\ inv[i].pc = "groq"
    /\ Len(timers) < MaxTimers
    /\ \E e \in GroqErrors :
         LET rec == [inv[i] EXCEPT !.lastError = e]
             counts == MarkCounts(keyFailureCounts, inv[i].apiKey)
             tm == MarkTimers(timers, inv[i].apiKey)
         IN  IF IsRateLimited(e)
             THEN LoopHead(i, rec, inv[i].attempt + 1, counts, tm)
             ELSE AfterLoop(i, rec, counts, tm)
    /\ UNCHANGED <<config, clock, sum, vectorStoreInstance, store, chatVars>>

\* the fallback OpenAI call resolves: return its response
OpenAILastOk(i) ==
    /\ inv[i].pc = "openaiLast"
    /\ inv' = [inv EXCEPT ![i].pc = "done", ![i].outcome = "openai"]
    /\ UNCHANGED <<config, clock, sum, rotator, vectorStoreInstance, store, chatVars>>

\* the fallback OpenAI call rejects: logged to the console, then
\* throw lastError || new Error
OpenAILastFails(i) ==
    /\ inv[i].pc = "openaiLast"
    /\ inv' = [inv EXCEPT ![i].pc = "done", ![i].outcome = "threw",
                          ![i].thrown = Thrown(inv[i].lastError)]
    /\ UNCHANGED <<config, clock, sum, rotator, vectorStoreInstance, store, chatVars>>

\* the oldest 60 s timer of markGroqKeyFailed fires: keyFailureCounts.delete(apiKey)
TimerFires ==
    /\ timers # <<>>
    /\ keyFailureCounts' = DeleteCount(keyFailureCounts, Head(timers))
    /\ timers' = Tail(timers)
    /\ UNCHANGED <<config, clock, sum, currentGroqKeyIndex, vectorStoreInstance, store, chatVars, inv>>

\* ---- the rotator on its own, with time in ticks
\* a caller runs createGroqLLM: getNextGroqApiKey selects a key, a call on it starts
RotSelect(i) ==
    /\ inv[i].pc = "idle"
    /\ LET sel == GetNextGroqApiKey(nKeys, currentGroqKeyIndex, keyFailureCounts)
       IN  /\ currentGroqKeyIndex' = sel.index
           /\ keyFailureCounts' = sel.counts
           /\ inv' = [inv EXCEPT ![i].pc = "groq", ![i].apiKey = sel.key]
    /\ UNCHANGED <<config, clock, sum, timers, vectorStoreInstance, store, chatVars>>

\* the call succeeds: nothing is reported
RotOk(i) ==
    /\ inv[i].pc = "groq"
    /\ inv' = [inv EXCEPT ![i] = IdleInv]
    /\ UNCHANGED <<config, clock, sum, rotator, vectorStoreInstance, store, chatVars>>

\* the call fails: markGroqKeyFailed(apiKey) counts the failure and schedules
\* a timer 60 s ahead, then returns to the caller
RotFail(i) ==
    /\ inv[i].pc = "groq"
    /\ Len(timers) < MaxTimers
    /\ keyFailureCounts' = MarkCounts(keyFailureCounts, inv[i].apiKey)
    /\ timers' = MarkTimers(timers, inv[i].apiKey)
    /\ due' = Append(due, Window)
    /\ inv' = [inv EXCEPT ![i] = IdleInv]
    /\ UNCHANGED <<config, sum, currentGroqKeyIndex, vectorStoreInstance, store, chatVars>>

\* time advances by a tick, unless a timer is due: its callback runs first
Tick ==
    /\ \A j \in 1..Len(due) : due[j] > 0
    /\ due' = [j \in 1..Len(due) |-> due[j] - 1]
    /\ UNCHANGED <<config, sum, rotator, vectorStoreInstance, store, chatVars, inv>>

\* the oldest timer is due: its callback deletes the count of its key
TimerDue ==
    /\ timers # <<>>
    /\ due[1] = 0
    /\ keyFailureCounts' = DeleteCount(keyFailureCounts, Head(timers))
    /\ timers' = Tail(timers)
    /\ due' = Tail(due)
    /\ UNCHANGED <<config, sum, currentGroqKeyIndex, vectorStoreInstance, store, chatVars, inv>>

\* the caller is done with the invocation; the next call begins afresh
InvReset(i) ==
    /\ inv[i].pc = "done"
    /\ inv' = [inv EXCEPT ![i] = IdleInv]
    /\ UNCHANGED <<config, clock, sum, rotator, vectorStoreInstance, store, chatVars>>

\* ------------------------------------------------- summarizeLegalDocument
\* the locals of the call: sources is the filtered list, outcome is "" while it
\* runs, then "returned" or "threw"; threw names the step that rejected
\* lsi is what extractLegalStatutes met: "threw" when invokeLLMWithFallback
\* threw, else the kind of content the provider returned
IdleSum == [pc |-> "idle", similarDocs |-> <<>>, sources |-> <<>>,
            uniqueSources |-> <<>>, lsi |-> "", legalStatutes |-> "",
            outcome |-> "", threw |-> ""]

\* the invocation slot the call uses for its two invokeLLMWithFallback calls
SumInv == 1

\* req.body.input_text: empty after cleaning, or a document
InputTexts == {"", "doc"}

\* candidates of similaritySearchWithScore(summary, 5)
DocE == [case_title |-> "E", source_url |-> "urlE", score |-> 40]
SimilarDocs == { <<>>, <<DocA, DocA2>>, <<DocB, DocE, DocA>> }

\* the filter of sources: score < 0.35 || score >= 0.5
SumRelevant(d) == d.score < SumLow \/ d.score >= SumHigh

RECURSIVE SumSources(_)
SumSources(docs) ==
    IF docs = <<>> THEN <<>>
    ELSE IF SumRelevant(Head(docs)) THEN <<Head(docs)>> \o SumSources(Tail(docs))
    ELSE SumSources(Tail(docs))

\* what response.content of the extraction call can be: a JSON object, lines
\* of "name: explanation", text with neither, or not a string at all
Contents == {"json", "lines", "garbage", "notString"}

\* extractLegalStatutes once invokeLLMWithFallback has settled with lsi: a
\* rejection and a content that is no string (match and split both throw) end
\* in the outer catch, which returns {}; unparsable text ends in the line
\* parser of the inner catch
ExtractNoOuterCatch(lsi) ==
    IF lsi \in {"threw", "notString"} THEN [threw |-> TRUE, value |-> ""]
    ELSE IF lsi = "json" THEN [threw |-> FALSE, value |-> "parsed"]
    ELSE IF lsi = "lines" THEN [threw |-> FALSE, value |-> "statutes"]
    ELSE [threw |-> FALSE, value |-> "{}"]
ExtractLegalStatutes(lsi) ==
    IF lsi \in {"threw", "notString"} THEN [threw |-> FALSE, value |-> "{}"]
    ELSE IF lsi = "json" THEN [threw |-> FALSE, value |-> "parsed"]
    ELSE IF lsi = "lines" THEN [threw |-> FALSE, value |-> "statutes"]
    ELSE [threw |-> FALSE, value |-> "{}"]

\* summarizeLegalDocument(inputText) is called: an empty cleaned text throws at
\* once, otherwise invokeLLMWithFallback(summaryPrompt, false) starts
Summarize ==
    /\ sum.pc = "idle"
    /\ inv[SumInv].pc = "idle"
    /\ \E text \in InputTexts :
         IF text = ""
         THEN /\ sum' = [sum EXCEPT !.pc = "done", !.outcome = "threw", !.threw = "input"]
              /\ UNCHANGED <<rotator, inv>>
         ELSE /\ sum' = [sum EXCEPT !.pc = "summary"]
              /\ InvBegin(SumInv, FALSE)
    /\ UNCHANGED <<config, clock, vectorStoreInstance, store, chatVars>>

\* the summary call settles: its rejection leaves the function; otherwise
\* getResources builds a Groq client (a key is selected) and the search starts
SummaryDone ==
    /\ sum.pc = "summary"
    /\ inv[SumInv].pc = "done"
    /\ inv' = [inv EXCEPT ![SumInv] = IdleInv]
    /\ IF inv[SumInv].outcome = "threw"
       THEN /\ sum' = [sum EXCEPT !.pc = "done", !.outcome = "threw", !.threw = "summary"]
            /\ UNCHANGED <<rotator, vectorStoreInstance>>
       ELSE LET sel == GetNextGroqApiKey(nKeys, currentGroqKeyIndex, keyFailureCounts)
            IN  /\ currentGroqKeyIndex' = sel.index
                /\ keyFailureCounts' = sel.counts
                /\ timers' = timers
                /\ vectorStoreInstance' = TRUE
                /\ sum' = [sum EXCEPT !.pc = "search"]
    /\ UNCHANGED <<config, clock, store, chatVars>>

\* the search settles: the sources are filtered and deduplicated, and
\* extractLegalStatutes calls invokeLLMWithFallback(extractionPrompt, true)
SumSearch ==
    /\ sum.pc = "search"
    /\ \E docs \in SimilarDocs :
         sum' = [sum EXCEPT !.pc = "statutes", !.similarDocs = docs,
                            !.sources = SumSources(docs),
                            !.uniqueSources = UniqueSources(SumSources(docs))]
    /\ InvBegin(SumInv, TRUE)
    /\ UNCHANGED <<config, clock, vectorStoreInstance, store, chatVars>>

\* the search rejects: nothing catches it in summarizeLegalDocument
SumSearchFails ==
    /\ sum.pc = "search"
    /\ sum' = [sum EXCEPT !.pc = "done", !.outcome = "threw", !.threw = "search"]
    /\ UNCHANGED <<config, clock, rotator, vectorStoreInstance, store, chatVars, inv>>

\* the extraction call settles and extractLegalStatutes finishes; then
\* summarizeLegalDocument returns { summary, sources, legalStatutes }
StatutesDone ==
    /\ sum.pc = "statutes"
    /\ inv[SumInv].pc = "done"
    /\ inv' = [inv EXCEPT ![SumInv] = IdleInv]
    /\ \E lsi \in (IF inv[SumInv].outcome = "threw" THEN {"threw"} ELSE Contents) :
         LET result == ExtractLegalStatutes(lsi)
         IN  IF result.threw
             THEN sum' = [sum EXCEPT !.pc = "done", !.lsi = lsi, !.outcome = "threw",
                                     !.threw = "statutes"]
             ELSE sum' = [sum EXCEPT !.pc = "done", !.lsi = lsi, !.outcome = "returned",
                                     !.legalStatutes = result.value]
    /\ UNCHANGED <<config, clock, rotator, vectorStoreInstance, store, chatVars>>

\* the controller has answered; the next call begins afresh
SumReset ==
    /\ sum.pc = "done"
    /\ sum' = IdleSum
    /\ UNCHANGED <<config, clock, rotator, vectorStoreInstance, store, chatVars, inv>>

\* ------------------------------------------------- getChat and deleteChat
\* the module-level chatdemo object after chatdemo.chatId = chatId
ChatDemo(c) == [chatId |-> c, user |-> "67598849e330532b239f4a29", chatHistory |-> <<>>]

\* res.status(code).json({ message, data })
JsonBody(rs, code, message, data) ==
    [Json(rs, code) EXCEPT !.body = [message |-> message, data |-> data]]

\* the collection without its i-th document
RemoveAt(docs, i) == SubSeq(docs, 1, i - 1) \o SubSeq(docs, i + 1, Len(docs))

\* a getChat request arrives: Chats.findOne({ chatId }) starts
GetChat(r) ==
    /\ pc[r] = "idle"
    /\ \E u \in Users, c \in ChatIds :
         req' = [req EXCEPT ![r] = [user |-> u, chatId |-> c, userMessage |-> <<>>]]
    /\ pc' = [pc EXCEPT ![r] = "getChat"]
    /\ UNCHANGED <<config, clock, sum, rotator, vectorStoreInstance, store, loc, res, inv>>

\* findOne settles: the chat found is returned, else the demo object
GetChatFound(r) ==
    /\ pc[r] = "getChat"
    /\ LET i == FindOneChat(chats, req[r].chatId)
       IN  res' = [res EXCEPT ![r] =
                     IF i # 0 THEN JsonBody(@, 200, "Chat found", <<chats[i]>>)
                     ELSE JsonBody(@, 200, "Chat not found", <<ChatDemo(req[r].chatId)>>)]
    /\ pc' = [pc EXCEPT ![r] = "done"]
    /\ UNCHANGED <<config, clock, sum, rotator, vectorStoreInstance, store, req, loc, inv>>

\* findOne rejects: the catch block of getChat
GetChatFails(r) ==
    /\ pc[r] = "getChat"
    /\ res' = [res EXCEPT ![r] = Json(@, 500)]
    /\ pc' = [pc EXCEPT ![r] = "done"]
    /\ UNCHANGED <<config, clock, sum, rotator, vectorStoreInstance, store, req, loc, inv>>

\* a deleteChat request arrives: Chats.findOneAndDelete({ chatId }) starts
DeleteChat(r) ==
    /\ pc[r] = "idle"
    /\ \E u \in Users, c \in ChatIds :
         req' = [req EXCEPT ![r] = [user |-> u, chatId |-> c, userMessage |-> <<>>]]
    /\ pc' = [pc EXCEPT ![r] = "deleteChat"]
    /\ UNCHANGED <<config, clock, sum, rotator, vectorStoreInstance, store, loc, res, inv>>

\* findOneAndDelete settles: the first match is removed and returned, 404 when
\* there is none
DeleteChatDone(r) ==
    /\ pc[r] = "deleteChat"
    /\ LET i == FindOneChat(chats, req[r].chatId)
       IN  IF i # 0
           THEN /\ chats' = RemoveAt(chats, i)
                /\ res' = [res EXCEPT ![r] = JsonBody(@, 200, "Chat deleted", <<chats[i]>>)]
           ELSE /\ chats' = chats
                /\ res' = [res EXCEPT ![r] = JsonBody(@, 404, "Chat not found", <<>>)]
    /\ pc' = [pc EXCEPT ![r] = "done"]
    /\ UNCHANGED <<config, clock, sum, rotator, vectorStoreInstance, uses, admitted, req, loc, inv>>

\* findOneAndDelete rejects: the catch block of deleteChat is empty, nothing
\* is answered
DeleteChatFails(r) ==
    /\ pc[r] = "deleteChat"
    /\ pc' = [pc EXCEPT ![r] = "done"]
    /\ UNCHANGED <<config, clock, sum, rotator, vectorStoreInstance, store, req, loc, res, inv>>

\* ------------------------------------------------------- specifications

\* usage counts the users may have when the requests arrive: each earlier
\* request was handled alone, so every use was an admission
InitUses == (MaxUses - 1)..MaxUses

Init ==
    /\ nKeys \in 1..MaxKeys
    /\ openaiKey = TRUE        \* not read by updateChat
    /\ currentGroqKeyIndex = 0
    /\ keyFailureCounts = NoFailures(nKeys)
    /\ timers = <<>>
    /\ vectorStoreInstance = FALSE
    /\ chats = <<>>
    /\ uses \in { [u \in Users |-> n] : n \in InitUses }
    /\ admitted = uses
    /\ pc = [r \in Requests |-> "idle"]
    /\ req = [r \in Requests |-> NoReq]
    /\ loc = [r \in Requests |-> NoLoc]
    /\ res = [r \in Requests |-> NoRes]
    /\ inv = [i \in Invocations |-> IdleInv]
    /\ due = <<>>
    /\ sum = IdleSum

\* the continuations of a request in flight
Continue(r) ==
    \/ FindOne(r)
    \/ Create(r)
    \/ FindById(r)
    \/ SaveUser(r)
    \/ SaveUserTurn(r)
    \/ StoreFails(r)
    \/ GotResources(r)
    \/ Search(r)
    \/ Enrich(r)
    \/ StreamOpen(r)
    \/ Chunk(r)
    \/ StreamEnd(r)
    \/ StreamFails(r)
    \/ StreamThrew(r)
    \/ StreamReturned(r)
    \/ SaveAiTurn(r)

Next == \E r \in Requests : Receive(r) \/ Continue(r)

\* simultaneous updateChat requests
Spec == Init /\ [][Next]_vars

\* a request arrives when no other request is in flight
ReceiveAlone(r) ==
    /\ \A q \in Requests \ {r} : pc[q] \in {"idle", "done"}
    /\ Receive(r)

NextSeq == \E r \in Requests : ReceiveAlone(r) \/ Continue(r)

\* updateChat requests handled one after another
SpecSeq == Init /\ [][NextSeq]_vars

\* every awaited operation of a request in flight settles sooner or later, by
\* resolving or by rejecting, and a provider stream is finite
Fairness == \A r \in Requests : WF_vars(Continue(r))

\* updateChat requests handled one after another whose awaits all settle
SpecLive == Init /\ [][NextSeq]_vars /\ Fairness

NextDrop == \E r \in Requests : ReceiveAlone(r) \/ Continue(r) \/ Disconnect(r)

\* updateChat requests whose clients may close the connection mid-stream
SpecDrop == Init /\ [][NextDrop]_vars

\* the environment of the gateway: any pool size, OpenAI configured or not
InitLLM ==
    /\ nKeys \in 1..MaxKeys
    /\ openaiKey \in BOOLEAN
    /\ currentGroqKeyIndex = 0
    /\ keyFailureCounts = NoFailures(nKeys)
    /\ timers = <<>>
    /\ vectorStoreInstance = FALSE
    /\ chats = <<>>
    /\ uses = [u \in Users |-> 0]
    /\ admitted = uses
    /\ pc = [r \in Requests |-> "idle"]
    /\ req = [r \in Requests |-> NoReq]
    /\ loc = [r \in Requests |-> NoLoc]
    /\ res = [r \in Requests |-> NoRes]
    /\ inv = [i \in Invocations |-> IdleInv]
    /\ due = <<>>
    /\ sum = IdleSum

\* the continuations of an invocation in flight
InvRun(i) ==
    \/ OpenAIFirstOk(i)
    \/ OpenAIFirstFails(i)
    \/ GroqOk(i)
    \/ GroqFails(i)
    \/ OpenAILastOk(i)
    \/ OpenAILastFails(i)

InvStep(i) ==
    \/ InvStart(i)
    \/ InvRun(i)
    \/ InvReset(i)

NextLLM == TimerFires \/ \E i \in Invocations : InvStep(i)

\* simultaneous invokeLLMWithFallback invocations and the rotator's timers
SpecLLM == InitLLM /\ [][NextLLM]_vars

NextRot ==
    \/ Tick
    \/ TimerDue
    \/ \E i \in Invocations : RotSelect(i) \/ RotOk(i) \/ RotFail(i)

\* simultaneous users of the rotator, time in ticks
SpecRot == InitLLM /\ [][NextRot]_vars

\* timers fire when due and time does not stop
SpecRotLive == SpecRot /\ WF_vars(Tick) /\ WF_vars(TimerDue)

NextSum ==
    \/ Summarize
    \/ SummaryDone
    \/ SumSearch
    \/ SumSearchFails
    \/ StatutesDone
    \/ SumReset
    \/ InvRun(SumInv)
    \/ TimerFires

\* summarizeLegalDocument calls, one after another, and the rotator's timers
SpecSum == InitLLM /\ [][NextSum]_vars

\* no other request is in flight
Alone(r) == \A q \in Requests \ {r} : pc[q] \in {"idle", "done"}

\* a getChat or deleteChat request arrives when no other request is in flight
GetChatAlone(r) == Alone(r) /\ GetChat(r)
DeleteChatAlone(r) == Alone(r) /\ DeleteChat(r)

NextOwn ==
    \E r \in Requests :
        \/ ReceiveAlone(r)
        \/ GetChatAlone(r)
        \/ DeleteChatAlone(r)
        \/ Continue(r)
        \/ GetChatFound(r)
        \/ GetChatFails(r)
        \/ DeleteChatDone(r)
        \/ DeleteChatFails(r)

\* getChat, updateChat and deleteChat requests handled one after another
SpecOwn == Init /\ [][NextOwn]_vars

\* ---------------------------------------------------------------- claims
Positions(evs, name) == { i \in 1..Len(evs) : evs[i].event = name }

Flushed(r) == res[r].contentType = "text/event-stream"

StoredTurns(r) ==
    LET i == FindOneChat(chats, req[r].chatId)
    IN  IF req[r].chatId = "" \/ i = 0 THEN {}
        ELSE { chats[i].chatHistory[k] : k \in 1..Len(chats[i].chatHistory) }

HasUserTurn(r) == \E t \in StoredTurns(r) : t.kind = "user" /\ t.by = r
HasAiTurn(r) == \E t \in StoredTurns(r) : t.kind = "ai" /\ t.by = r

\* C1: whenever streamLegalAssistantResponse has returned normally, the channel
\* holds exactly one sources event, which precedes every chunk event, and
\* exactly one end event, which follows every chunk event.
C1_SourcesChunksEnd ==
    \A r \in Requests :
        loc[r].returned =>
            LET evs == res[r].events
            IN  /\ Cardinality(Positions(evs, "sources")) = 1
                /\ Cardinality(Positions(evs, "end")) = 1
                /\ \A s \in Positions(evs, "sources"), c \in Positions(evs, "chunk") : s < c
                /\ \A e \in Positions(evs, "end"), c \in Positions(evs, "chunk") : c < e

\* a greeting run and a run with MaxChunks chunks have both returned
C1_Witness ==
    \E g, q \in Requests :
        /\ loc[g].returned /\ IsGreeting(req[g].userMessage)
        /\ loc[q].returned /\ ~IsGreeting(req[q].userMessage)
        /\ Cardinality(Positions(res[q].events, "chunk")) = MaxChunks

\* C2: a request rejected with 400, 401 or 403 has no SSE headers flushed and
\* no event written; a request whose SSE headers are flushed has a message,
\* owns the conversation and read a usage count below the ceiling.
C2_FlushAfterChecks ==
    \A r \in Requests :
        /\ res[r].statusCode \in {400, 401, 403} =>
               /\ ~Flushed(r)
               /\ res[r].events = <<>>
        /\ Flushed(r) =>
               /\ req[r].userMessage # <<>>
               /\ \E i \in 1..Len(chats) :
                      chats[i].chatId = req[r].chatId /\ chats[i].user = req[r].user
               /\ loc[r].uses <= MaxUses

\* one request was rejected 403 and another 401
C2_Witness ==
    \E a, b \in Requests :
        /\ res[a].statusCode = 403 /\ pc[a] = "done"
        /\ res[b].statusCode = 401 /\ pc[b] = "done"

\* C3: a request that hit an exception ends in exactly one of two ways, decided
\* by res.headersSent at the moment of the exception: not yet sent, a 500 JSON
\* response and no event; already sent, an error event on the SSE channel, the
\* channel closed and no JSON response.
C3_ErrorPathsExclusive ==
    \A r \in Requests :
        (pc[r] = "done" /\ loc[r].threw # "") =>
            IF ~loc[r].sentAtThrow
            THEN /\ res[r].contentType = "application/json"
                 /\ res[r].statusCode = 500
                 /\ res[r].events = <<>>
            ELSE /\ res[r].contentType = "text/event-stream"
                 /\ res[r].statusCode = 200
                 /\ Positions(res[r].events, "error") # {}
                 /\ res[r].ended

\* one request failed before the flush and another after it
C3_Witness ==
    \E a, b \in Requests :
        /\ pc[a] = "done" /\ loc[a].threw = "findById" /\ res[a].statusCode = 500
        /\ pc[b] = "done" /\ loc[b].threw = "streaming" /\ res[b].ended

\* C4: once the similarity search or the provider call of a request has
\* started, and after either has failed, the stored conversation holds the user
\* turn of that request.
C4_UserTurnBeforeGeneration ==
    \A r \in Requests :
        (\/ pc[r] \in {"search", "enrich", "streamOpen", "streaming"}
         \/ loc[r].threw \in {"search", "streamOpen", "streaming"}) => HasUserTurn(r)

\* generation failed mid-stream and the request is over
C4_Witness ==
    \E r \in Requests :
        /\ pc[r] = "done" /\ loc[r].threw = "streaming"
        /\ Len(loc[r].fullAnswer) > 0
        /\ HasUserTurn(r)

\* C5: a stored assistant turn of a request implies that its provider stream was
\* consumed and the end event written; no conversation holds an assistant turn
\* of a request whose retrieval or generation is still in progress.
C5_AiTurnAfterGeneration ==
    \A r \in Requests :
        HasAiTurn(r) =>
            /\ loc[r].returned
            /\ Positions(res[r].events, "end") # {}
            /\ pc[r] \notin {"gotResources", "search", "enrich", "streamOpen",
                             "streaming", "streamThrew"}

\* an assistant turn with the full answer is stored
C5_Witness ==
    \E r \in Requests :
        \E t \in StoredTurns(r) : t.kind = "ai" /\ t.by = r /\ Len(t.text) = MaxChunks

\* C6: with requests handled one after another, a request is denied with 403
\* exactly when the stored count has reached 10, without flushing or writing; a
\* request that read 9 is admitted and, once its user.save() has settled, the
\* stored count is 10.
C6_QuotaBoundary ==
    \A r \in Requests :
        /\ res[r].statusCode = 403 =>
               /\ uses[req[r].user] >= MaxUses
               /\ ~Flushed(r)
               /\ res[r].events = <<>>
        /\ Flushed(r) => loc[r].uses <= MaxUses
        /\ (/\ Flushed(r)
            /\ loc[r].uses = MaxUses
            /\ pc[r] # "saveUser"
            /\ loc[r].threw # "saveUser") => uses[req[r].user] = MaxUses

\* a request that read 9 was admitted, the next one of the same user denied
C6_Witness ==
    \E a, b \in Requests :
        /\ req[a].user = req[b].user
        /\ Flushed(a) /\ loc[a].uses = MaxUses /\ pc[a] = "done"
        /\ res[b].statusCode = 403 /\ pc[b] = "done"

\* C7: the requests of one user ever admitted to streaming number at most 10.
C7_CeilingUnderConcurrency == \A u \in Users : admitted[u] <= MaxUses

\* a step in which invocation i starts a Groq call on a freshly selected key
SelectStep(i) == inv'[i].groqCalls = inv[i].groqCalls + 1

\* a step in which the Groq call of invocation i rejects
FailStep(i) == inv[i].pc = "groq" /\ inv'[i] # inv[i] /\ inv'[i].outcome # "groq"

\* the failure counts getNextGroqApiKey sees in a step of invocation i: a
\* rejected call is counted before the next key is selected
CountsAtCall(i) ==
    IF inv[i].pc = "groq"
    THEN [keyFailureCounts EXCEPT ![inv[i].apiKey] = @ + 1]
    ELSE keyFailureCounts

C9_PrimaryAttempts ==
    /\ [](\A i \in Invocations :
            /\ inv[i].groqCalls <= nKeys
            /\ inv[i].pc = "groq" => inv[i].attempt < nKeys
            /\ (/\ inv[i].lastError # NoError
                /\ ~(inv[i].lastError.rate \/ inv[i].lastError.status = 429))
               => inv[i].pc # "groq")
    /\ [][\A i \in Invocations :
            FailStep(i) =>
                LET key == inv[i].apiKey
                    e == inv'[i].lastError
                    marked == [keyFailureCounts EXCEPT ![key] = @ + 1]
                    rateLimited == e.rate \/ e.status = 429
                    again == rateLimited /\ inv[i].attempt + 1 < nKeys
                IN  /\ e \in GroqErrors
                    /\ timers' = Append(timers, key)
                    /\ \/ keyFailureCounts' = marked
                       \/ /\ again
                          /\ \A k \in KeyIds(nKeys) : marked[k] >= FailLimit
                          /\ keyFailureCounts' = NoFailures(nKeys)
                    /\ IF again
                       THEN /\ inv'[i].pc = "groq"
                            /\ inv'[i].attempt = inv[i].attempt + 1
                            /\ SelectStep(i)
                            /\ \/ currentGroqKeyIndex' = (inv'[i].apiKey + 1) % nKeys
                               \/ currentGroqKeyIndex' = 0 /\ inv'[i].apiKey = 0
                       ELSE /\ inv'[i].pc # "groq"
                            /\ inv'[i].groqCalls = inv[i].groqCalls]_vars

\* every key of a full pool was tried once, each call was rate limited
C9_Witness ==
    \E i \in Invocations :
        /\ nKeys = MaxKeys
        /\ inv[i].groqCalls = nKeys
        /\ inv[i].pc = "done"
        /\ inv[i].outcome = "threw"
        /\ inv[i].lastError.rate

\* C10: an invocation calls OpenAI at most once: as its first call when
\* preferOpenAI and the key is set, with no Groq call made before, or else after
\* the Groq loop ended with every call rejected.  A first call that succeeds
\* returns with no Groq call made and the rotator untouched by the invocation;
\* OpenAI is not called once a Groq call has succeeded.
C10_SecondaryAtMostOnce ==
    /\ [](\A i \in Invocations :
            /\ inv[i].openaiCalls <= 1
            /\ inv[i].openaiCalls = 1 => openaiKey
            /\ inv[i].pc = "openaiFirst" =>
                   inv[i].preferOpenAI /\ inv[i].groqCalls = 0
            /\ inv[i].pc = "openaiLast" =>
                   /\ ~inv[i].preferOpenAI
                   /\ inv[i].groqCalls >= 1
                   /\ inv[i].lastError # NoError
                   /\ inv[i].outcome = ""
            /\ (inv[i].outcome = "openai" /\ inv[i].preferOpenAI) => inv[i].groqCalls = 0
            /\ inv[i].outcome = "groq" =>
                   /\ inv[i].pc = "done"
                   /\ inv[i].openaiCalls = 1 => inv[i].preferOpenAI)
    /\ [][\A i \in Invocations :
            /\ inv'[i].openaiCalls > inv[i].openaiCalls =>
                   /\ inv[i].outcome = ""
                   /\ inv'[i].pc \in {"openaiFirst", "openaiLast"}
            /\ (inv[i].pc = "idle" /\ inv'[i].pc # "idle"
                /\ inv'[i].preferOpenAI /\ openaiKey) => inv'[i].pc = "openaiFirst"
            /\ (\/ inv[i].pc = "idle" /\ inv'[i].pc = "openaiFirst"
                \/ inv[i].pc = "openaiFirst" /\ inv'[i].outcome = "openai")
               => UNCHANGED rotator]_vars

\* one invocation returned the response of its preferred OpenAI call, another
\* the response of the OpenAI fallback after its Groq calls were rejected
C10_Witness ==
    \E i, j \in Invocations :
        /\ inv[i].outcome = "openai" /\ inv[i].preferOpenAI /\ inv[i].groqCalls = 0
        /\ inv[j].outcome = "openai" /\ ~inv[j].preferOpenAI /\ inv[j].groqCalls >= 1

\* what the OpenAI call of the final fallback rejects with (the error of its
\* catch clause, which is logged and dropped)
OpenAIError == [from |-> "openai", rate |-> FALSE, status |-> 500]

\* C11: an invocation whose every attempt failed throws an error, and the error
\* is that of its last failed attempt: the OpenAI error when the final fallback
\* was called (it is the last attempt then), the last Groq error otherwise.
C11_ThrowsLastError ==
    \A i \in Invocations :
        inv[i].outcome = "threw" =>
            /\ inv[i].thrown # NoError
            /\ IF inv[i].openaiCalls = 1 /\ ~inv[i].preferOpenAI
               THEN inv[i].thrown = OpenAIError
               ELSE inv[i].thrown = inv[i].lastError /\ inv[i].thrown \in GroqErrors

\* the provider calls a request can make before every alternative is used up:
\* one per Groq key and one for OpenAI when it is configured
Alternatives == nKeys + (IF openaiKey THEN 1 ELSE 0)

\* C12: when the provider call of the streaming pipeline has failed (llm.stream
\* rejected or the stream broke), the failure of the selected key is counted
\* by the rotator, and the error event is on the channel only when the request
\* has made a provider call for every alternative.
C12_StreamingFailover ==
    \A r \in Requests :
        loc[r].threw \in {"streamOpen", "streaming"} =>
            /\ keyFailureCounts[loc[r].llmKey] > 0
            /\ Positions(res[r].events, "error") # {} => loc[r].streamCalls >= Alternatives

\* C13: when the similarity search of a request has rejected, no error event is
\* on its channel and the request goes on with empty evidence: the no-evidence
\* context, a sources event with an empty list, and the provider call made.
C13_SearchFailureDegrades ==
    \A r \in Requests :
        loc[r].threw = "search" =>
            /\ Positions(res[r].events, "error") = {}
            /\ loc[r].contextText = NoEvidence
            /\ \E k \in Positions(res[r].events, "sources") : res[r].events[k].data = <<>>
            /\ loc[r].streamCalls = 1

\* the request has valid documents and its enrichment has settled
Enriched(r) == Len(loc[r].validDocs) > 0 /\ pc[r] # "enrich"

\* the titles of a list of source items
Titles(list) == { list[k].case_title : k \in 1..Len(list) }

CitationLists(r) ==
    { res[r].events[k].data : k \in Positions(res[r].events, "sources") }
    \cup { t.sources : t \in { u \in StoredTurns(r) : u.kind = "ai" /\ u.by = r } }

\* C15: every entry of a citation list of a request is a candidate of its
\* search with a score at or above the bar, no two entries of a list have the
\* same title, and the list is empty when no candidate reaches the bar.
C15_CitationsRelevantAndUnique ==
    \A r \in Requests :
        \A list \in CitationLists(r) :
            /\ \A k \in 1..Len(list) :
                   /\ list[k].score >= RelevanceBar
                   /\ \E j \in 1..Len(loc[r].results) :
                          /\ loc[r].results[j].case_title = list[k].case_title
                          /\ loc[r].results[j].score >= RelevanceBar
            /\ \A j, k \in 1..Len(list) : j # k => list[j].case_title # list[k].case_title
            /\ (\A j \in 1..Len(loc[r].results) : loc[r].results[j].score < RelevanceBar)
                   => list = <<>>

\* two stored assistant turns: one cites the candidate that is exactly at the
\* bar (the one just below it was dropped), the other cites one entry for two
\* valid candidates of the same title
C15_Witness ==
    \E a, b \in Requests :
        /\ loc[a].results = <<DocD, DocC>>
        /\ \E t \in StoredTurns(a) : t.kind = "ai" /\ t.by = a /\ Titles(t.sources) = {"C"}
        /\ Len(loc[b].validDocs) = 2
        /\ \E t \in StoredTurns(b) : t.kind = "ai" /\ t.by = b /\ Len(t.sources) = 1

\* the first valid document of a request with title t
FirstWithTitle(items, t) ==
    items[CHOOSE i \in 1..Len(items) :
            /\ items[i].case_title = t
            /\ \A j \in 1..(i - 1) : items[j].case_title # t]

\* C16: every entry of a citation list of a request is the first valid
\* candidate, in result order, that has its title: same source_url, same score.
C16_FirstOccurrenceWins ==
    \A r \in Requests :
        \A list \in CitationLists(r) :
            \A k \in 1..Len(list) :
                list[k] = FirstWithTitle(loc[r].validDocs, list[k].case_title)

\* the messages whose normalized text is a greeting: "Hey!" gives "hey", which
\* is in the greeting set; " ok." gives "ok", which has two characters; "law?"
\* gives "law", three characters and not in the set
GreetingMessages == { <<"H", "e", "y", "!">>, <<" ", "o", "k", ".">> }

\* C17: a request with a greeting message never starts a similarity search or a
\* provider call, and once streamLegalAssistantResponse has returned for it,
\* the pipeline has written exactly a sources event with an empty list, a chunk
\* event with the canned greeting and an end event, in that order (anything
\* written after them is an error event of updateChat's catch block).
C17_GreetingShortCircuit ==
    \A r \in Requests :
        req[r].userMessage \in GreetingMessages =>
            /\ loc[r].searchCalls = 0
            /\ loc[r].streamCalls = 0
            /\ pc[r] \notin {"search", "enrich", "streamOpen", "streaming", "streamThrew"}
            /\ pc[r] \in {"streamReturned", "saveAiTurn"} => loc[r].returned
            /\ loc[r].returned =>
                   LET evs == res[r].events
                   IN  /\ Len(evs) >= 3
                       /\ SubSeq(evs, 1, 3) =
                              << SourcesEvent(<<>>), ChunkEvent(GreetingText), EndEvent >>
                       /\ \A k \in 4..Len(evs) : evs[k] = ErrorEvent

\* a message in the greeting set and a message shorter than three characters
\* were both answered with the canned greeting
C17_Witness ==
    \E a, b \in Requests :
        /\ req[a].userMessage = <<"H", "e", "y", "!">>
        /\ req[b].userMessage = <<" ", "o", "k", ".">>
        /\ loc[a].returned /\ Len(res[a].events) = 3 /\ pc[a] = "done"
        /\ loc[b].returned /\ Len(res[b].events) = 3 /\ pc[b] = "done"

\* the stored conversation records with chatId c
RecordsOf(c) == { i \in 1..Len(chats) : chats[i].chatId = c }

C19_NoAiTurnAfterDisconnect ==
    \A r \in Requests : res[r].destroyed => ~HasAiTurn(r)

\* the awaits of a request that come after the flush of the SSE headers
AwaitsAfterFlush ==
    {"saveUser", "saveUserTurn", "search", "streamOpen", "streaming", "saveAiTurn"}

\* C20: a request whose SSE headers are flushed eventually has its channel
\* ended; a request that is over after a failure of a step behind the flush
\* has its channel ended, and whenever the channel of a request with such a
\* failure is ended an error event has been written on it.
C20_ChannelEventuallyClosed ==
    /\ \A r \in Requests : Flushed(r) ~> res[r].ended
    /\ [](\A r \in Requests :
            /\ (pc[r] = "done" /\ Flushed(r)) => res[r].ended
            /\ loc[r].threw \in AwaitsAfterFlush => Flushed(r)
            /\ (loc[r].threw \in AwaitsAfterFlush /\ res[r].ended)
                   => Positions(res[r].events, "error") # {})

\* one request failed at the save of the usage count, another at the save of
\* the assistant turn; both channels carry an error event and are ended
C20_Witness ==
    \E a, b \in Requests :
        /\ loc[a].threw = "saveUser" /\ res[a].ended
        /\ loc[b].threw = "saveAiTurn" /\ res[b].ended
        /\ Positions(res[a].events, "error") # {}
        /\ Positions(res[b].events, "error") # {}

\* the provider stream of the request broke after at least one chunk event and
\* the request is over
BrokeMidStream(r) ==
    /\ pc[r] = "done"
    /\ loc[r].threw = "streaming"
    /\ Len(loc[r].fullAnswer) > 0

\* C21 as stated: when the provider stream broke after some chunk events, the
\* text accumulated so far is stored as the assistant turn of the request.
C21_PartialAnswerPersisted ==
    \A r \in Requests :
        BrokeMidStream(r) =>
            \E t \in StoredTurns(r) :
                t.kind = "ai" /\ t.by = r /\ t.text = loc[r].fullAnswer

\* C21 amended: when the provider stream broke after some chunk events, no
\* assistant turn of the request is stored: the accumulated text is dropped,
\* the stored conversation ends the request with its user turn only, and the
\* channel carries the chunks written, then error events, and is ended.
C21_PartialAnswerDiscarded ==
    \A r \in Requests :
        BrokeMidStream(r) =>
            /\ ~HasAiTurn(r)
            /\ HasUserTurn(r)
            /\ Cardinality(Positions(res[r].events, "chunk")) = Len(loc[r].fullAnswer)
            /\ Positions(res[r].events, "end") = {}
            /\ \A c \in Positions(res[r].events, "chunk"),
                  e \in Positions(res[r].events, "error") : c < e
            /\ res[r].ended

\* a stream broke after MaxChunks chunk events; the request is over and the
\* conversation holds no assistant turn of it
C21_Witness ==
    \E r \in Requests :
        /\ BrokeMidStream(r)
        /\ Cardinality(Positions(res[r].events, "chunk")) = MaxChunks
        /\ ~HasAiTurn(r)

\* the elements of a sequence
Range(list) == { list[k] : k \in 1..Len(list) }

\* C22: both relevance filters keep the candidates at or above one bar and
\* nothing else: every entry of a citation list of the chat pipeline has a
\* score of at least 0.6; every source kept by summarizeLegalDocument has a
\* score of at least 0.5, and a candidate that scores at least as high as a
\* kept one is kept as well.
C22_OneThresholdDirection ==
    /\ \A r \in Requests :
           \A list \in CitationLists(r) :
               \A d \in Range(list) : d.score >= RelevanceBar
    /\ \A d \in Range(sum.sources) :
           /\ d.score >= SumHigh
           /\ \A c \in Range(sum.similarDocs) :
                  c.score >= d.score => c \in Range(sum.sources)

\* every key of the pool is over the limit: the selection resets the pool
AllOverLimit == \A q \in KeyIds(nKeys) : keyFailureCounts[q] >= FailLimit

\* C23: a key whose count is 3 or more is not returned by a selection unless
\* every key of the pool is over the limit, and its count goes back to zero
\* only when the window of its most recent failure has elapsed, that is when
\* no timer still pending for it has ticks left (or by the reset of the pool).
C23_CooldownWindow ==
    [][\A k \in KeyIds(nKeys) :
          /\ (\E i \in Invocations :
                  /\ inv[i].pc = "idle" /\ inv'[i].pc = "groq" /\ inv'[i].apiKey = k
                  /\ keyFailureCounts[k] >= FailLimit) => AllOverLimit
          /\ (keyFailureCounts[k] >= FailLimit /\ keyFailureCounts'[k] = 0) =>
                 \/ AllOverLimit
                 \/ \A j \in 1..Len(timers') : timers'[j] = k => due'[j] = 0]_vars

\* C24: a failure report raises the count by one, schedules a timer of its own
\* and hands control back to its caller in the same step; a key with a
\* positive count has a timer pending; and, timers firing when due, a positive
\* count eventually becomes zero, which makes the key selectable.
C24_FailureCountEventuallyResets ==
    /\ \A k \in 0..(MaxKeys - 1) :
           (k < nKeys /\ keyFailureCounts[k] > 0)
               ~> (k < nKeys /\ keyFailureCounts[k] = 0 /\ Healthy(keyFailureCounts[k]))
    /\ [](/\ Len(due) = Len(timers)
          /\ \A k \in KeyIds(nKeys) :
                 keyFailureCounts[k] > 0 => \E j \in 1..Len(timers) : timers[j] = k)
    /\ [][\A i \in Invocations :
            (inv[i].pc = "groq" /\ inv'[i] # inv[i] /\ Len(timers') > Len(timers)) =>
                /\ timers' = Append(timers, inv[i].apiKey)
                /\ due' = Append(due, Window)
                /\ keyFailureCounts'[inv[i].apiKey] = keyFailureCounts[inv[i].apiKey] + 1
                /\ inv'[i].pc = "idle"]_vars

\* a key failed twice; the timer of the first failure has fired and reset the
\* count, the timer of the second is still pending
C24_Witness ==
    /\ nKeys = 2
    /\ \E k \in KeyIds(nKeys) :
           /\ keyFailureCounts[k] = 0
           /\ timers = <<k>>

\* the invocations whose failure report for key k is made in the step
Reports(k) == { i \in Invocations : FailStep(i) /\ inv[i].apiKey = k }

\* C25: the pointer is always an index of the pool, and no failure report is
\* lost: a step that reports a failure of a key raises its count by exactly
\* one (unless the selection that follows in the same step finds the whole pool
\* over the limit and clears it), and a step that reports none leaves the count
\* alone or resets it to zero.
C25_RotatorBookkeeping ==
    /\ [](currentGroqKeyIndex \in KeyIds(nKeys))
    /\ [][\A k \in KeyIds(nKeys) :
            IF Reports(k) # {}
            THEN \/ keyFailureCounts'[k] = keyFailureCounts[k] + 1
                 \/ /\ keyFailureCounts' = NoFailures(nKeys)
                    /\ \A q \in KeyIds(nKeys) :
                           MarkCounts(keyFailureCounts, k)[q] >= FailLimit
            ELSE keyFailureCounts'[k] \in {keyFailureCounts[k], 0}]_vars

\* two invocations in flight at the same time each had their one call on the
\* only key rejected; both reports are counted
C25_Witness ==
    /\ nKeys = 1
    /\ keyFailureCounts[0] = 2
    /\ Len(timers) = 2
    /\ \A i \in Invocations :
           inv[i].pc = "openaiLast" /\ inv[i].groqCalls = 1

\* C26: an invocation never starts two Groq calls on the same key; in
\* particular, the call started right after a rejected one is on another key.
C26_NoKeyTwicePerInvocation ==
    [][\A i \in Invocations :
          (FailStep(i) /\ SelectStep(i)) => inv'[i].apiKey # inv[i].apiKey]_vars

\* the keys returned by m consecutive calls of getNextGroqApiKey
RECURSIVE KeysOfCalls(_, _, _, _)
KeysOfCalls(n, idx, counts, m) ==
    IF m = 0 THEN <<>>
    ELSE LET sel == GetNextGroqApiKey(n, idx, counts)
         IN  <<sel.key>> \o KeysOfCalls(n, sel.index, sel.counts, m - 1)

\* C27: in every state of the rotator in which no key has 3 or more failures,
\* N consecutive selections return the N keys of the pool in pool order,
\* starting with the key the pointer is at and wrapping around, each key once.
C27_CyclicPointer ==
    (\A k \in KeyIds(nKeys) : keyFailureCounts[k] < FailLimit) =>
        LET keys == KeysOfCalls(nKeys, currentGroqKeyIndex, keyFailureCounts, nKeys)
        IN  /\ keys = [j \in 1..nKeys |-> (currentGroqKeyIndex + j - 1) % nKeys]
            /\ Range(keys) = KeyIds(nKeys)
            /\ KeysOfCalls(nKeys, currentGroqKeyIndex, keyFailureCounts, 2 * nKeys)
                   = keys \o keys

\* a full pool whose pointer is on the last key, with failures counted on two
\* keys, none at the limit: the next three selections wrap around
C27_Witness ==
    /\ nKeys = MaxKeys
    /\ currentGroqKeyIndex = MaxKeys - 1
    /\ keyFailureCounts[0] = 2
    /\ keyFailureCounts[1] = 1
    /\ \E i \in Invocations : inv[i].pc = "groq" /\ inv[i].apiKey = 1

\* the payloads of the chunk events of a channel, concatenated in emission order
RECURSIVE ChunkText(_)
ChunkText(evs) ==
    IF evs = <<>> THEN <<>>
    ELSE IF Head(evs).event = "chunk" THEN Head(evs).data \o ChunkText(Tail(evs))
    ELSE ChunkText(Tail(evs))

\* C28: the text of a stored assistant turn of a request is the concatenation
\* of the payloads of the chunk events written for that request.
C28_StoredTextIsStreamedText ==
    \A r \in Requests :
        \A t \in StoredTurns(r) :
            (t.kind = "ai" /\ t.by = r) => t.text = ChunkText(res[r].events)

\* C29: extractLegalStatutes never throws past its caller: summarizeLegalDocument
\* never fails at the statutes step, and once that step has run the call has
\* returned with a result set, the empty one when the provider attempts all
\* failed or the content was no string.
C29_StatutesNeverThrow ==
    /\ sum.threw # "statutes"
    /\ sum.lsi # "" =>
          /\ sum.outcome = "returned"
          /\ sum.legalStatutes \in {"parsed", "statutes", "{}"}
          /\ sum.lsi \in {"threw", "notString", "garbage"} => sum.legalStatutes = "{}"

\* every provider attempt of the extraction call failed, and the summary was
\* returned with an empty statute set
C29_Witness ==
    /\ sum.pc = "done"
    /\ sum.lsi = "threw"
    /\ sum.outcome = "returned"
    /\ sum.legalStatutes = "{}"

\* C30: turns stay paired when requests on one conversation overlap: each
\* stored assistant turn directly follows the user turn of the request that
\* produced it.
C30_TurnsPaired ==
    \A c \in 1..Len(chats) :
        LET h == chats[c].chatHistory
        IN  \A k \in 1..Len(h) :
                h[k].kind = "ai" =>
                    /\ k > 1
                    /\ h[k - 1].kind = "user"
                    /\ h[k - 1].by = h[k].by

\* the positions of the terminal events (end, error) of a channel
Terminals(evs) == Positions(evs, "end") \cup Positions(evs, "error")

\* C31: each response channel carries at most one terminal event (end or
\* error), and the terminal event is the last event written.
C31_OneTerminalEventLast ==
    \A r \in Requests :
        /\ Cardinality(Terminals(res[r].events)) <= 1
        /\ \A k \in Terminals(res[r].events) : k = Len(res[r].events)

\* the request was answered by one of the validation rejections of updateChat
Rejected(r) == pc[r] = "done" /\ res[r].statusCode \in {400, 401, 403}

\* C32: a request rejected by validation (400, 401, 403) leaves the persistent
\* state unchanged: it created no conversation, appended no turn and wrote no
\* usage count.
C32_RejectedChangesNothing ==
    \A r \in Requests :
        Rejected(r) =>
            /\ ~loc[r].created
            /\ ~HasUserTurn(r)
            /\ ~HasAiTurn(r)
            /\ loc[r].uses = 0

\* request r takes a step inside streamLegalAssistantResponse for a greeting:
\* the call with its getResources, or the resumption that answers the greeting
GreetingStep(r) ==
    /\ IsGreeting(req[r].userMessage)
    /\ \/ pc[r] = "saveUserTurn" /\ pc'[r] = "gotResources"
       \/ pc[r] = "gotResources" /\ pc'[r] # pc[r]

\* C33: a greeting request leaves the credential rotator unchanged: the steps
\* streamLegalAssistantResponse takes for it change neither the rotator's
\* pointer nor any failure count.
C33_GreetingLeavesRotator ==
    [][\A r \in Requests :
          GreetingStep(r) =>
              /\ currentGroqKeyIndex' = currentGroqKeyIndex
              /\ keyFailureCounts' = keyFailureCounts]_vars

\* the conversation an answer of getChat or deleteChat carries, if any
Carried(r) ==
    IF res[r].body.message \in {"Chat found", "Chat deleted"} THEN res[r].body.data
    ELSE <<>>

\* C34: a conversation is only ever read, appended to or deleted by its owner:
\* the conversation a getChat or deleteChat answer carries (for deleteChat, the
\* one it removed) belongs to the requesting user, and every stored turn was
\* appended by a request of the conversation's owner.
C34_OwnerOnly ==
    /\ \A r \in Requests :
           \A k \in 1..Len(Carried(r)) : Carried(r)[k].user = req[r].user
    /\ \A i \in 1..Len(chats) :
           \A k \in 1..Len(chats[i].chatHistory) :
               req[chats[i].chatHistory[k].by].user = chats[i].user

====
